---------------------------- MODULE Spec2Model ----------------------------
(***************************************************************************)
(* A model of docs/scripts/licenses.py, the script that resolves the       *)
(* runtime dependencies of libloot-cpp, selects a licence set for each,    *)
(* downloads licence texts and extracts copyright notices.                 *)
(*                                                                         *)
(* The specifications of the module:                                       *)
(*   SpecParse    parse_licenses applied to one licence expression         *)
(*   SpecNotices  read_notices applied to one crate directory              *)
(*   SpecResolve  get_package_dependencies / recurse_dependencies          *)
(*   SpecResolveFair  the same, taking every step it can                   *)
(*   Spec         the __main__ pipeline from the resolved list onwards     *)
(*                                                                         *)
(* Python strings whose contents the code inspects (licence expressions,   *)
(* file names, file lines) are sequences of atoms; an atom is a run of     *)
(* characters the code never looks inside.  Names and versions, which the  *)
(* code only compares for equality, are plain strings.                     *)
(***************************************************************************)
EXTENDS Integers, Sequences, FiniteSets, TLC

VARIABLES
    \* SpecParse: the argument and the outcome of one parse_licenses call
    p_dependency, p_result,
    \* SpecNotices: the argument, the crate directory and the outcome of
    \* one read_notices call
    n_dependency, n_entries, n_result,
    \* SpecResolve: get_package_dependencies' locals, the call stack of
    \* recurse_dependencies, and history (visit_order, followed, entered)
    packages, dependency_names, stack, top_i, dependencies, rpc,
    visit_order, followed, entered,
    \* Spec: __main__'s and download_licenses' locals, the process' output
    package_dependencies, pc, idx, unique_licenses, pending, fetched,
    notices_rst, stderr, exit_status, written, extracted

parseVars == <<p_dependency, p_result>>
noticeVars == <<n_dependency, n_entries, n_result>>
resolveVars == <<packages, dependency_names, stack, top_i, dependencies, rpc,
                 visit_order, followed, entered>>
mainVars == <<package_dependencies, pc, idx, unique_licenses, pending, fetched,
              notices_rst, stderr, exit_status, written, extracted>>
vars == <<parseVars, noticeVars, resolveVars, mainVars>>

-----------------------------------------------------------------------------
(* Bounds of the model *)

\* longest enumerated licence expression, in atoms
MaxExprLen == 5
\* longest enumerated file line, in atoms
MaxLineLen == 3
\* most entries in an enumerated crate directory
MaxEntries == 2
\* most dependency edges of the root package in an enumerated graph
MaxRootDeps == 2
\* most dependencies in an enumerated resolved list
MaxDependencies == 2

-----------------------------------------------------------------------------
(* Python values and string operations *)

\* Python's None (JSON null): an atom that occurs in no string
None == <<"<None>">>

\* the result of a call returning normally, calling exit(1), or raising
Return(v) == [outcome |-> "return", value |-> v, stderr |-> <<>>]
Exit1(msg) == [outcome |-> "exit", value |-> <<>>, stderr |-> msg]
Raise(exc) == [outcome |-> "raise", value |-> <<>>, stderr |-> <<"Traceback", exc>>]

\* the exit status of a process that has not ended
Running == -1

NotCalled == [outcome |-> "not called", value |-> <<>>, stderr |-> <<>>]

Whitespace == {" "}

\* x in list
InList(x, list) == \E k \in 1..Len(list) : list[k] = x

\* str.strip(): drop leading and trailing whitespace
RECURSIVE StripLeft(_)
StripLeft(s) ==
    IF s # <<>> /\ Head(s) \in Whitespace THEN StripLeft(Tail(s)) ELSE s

RECURSIVE StripRight(_)
StripRight(s) ==
    IF s # <<>> /\ s[Len(s)] \in Whitespace
    THEN StripRight(SubSeq(s, 1, Len(s) - 1))
    ELSE s

Strip(s) == StripRight(StripLeft(s))

\* str.split(sep): the pieces between the occurrences of sep, left to right;
\* always at least one piece, empty pieces kept
RECURSIVE Split(_, _)
Split(s, sep) ==
    IF \E k \in 1..Len(s) : s[k] = sep
    THEN LET k == CHOOSE j \in 1..Len(s) :
                      s[j] = sep /\ \A m \in 1..(j - 1) : s[m] # sep
         IN <<SubSeq(s, 1, k - 1)>> \o Split(SubSeq(s, k + 1, Len(s)), sep)
    ELSE <<s>>

\* list(map(str.strip, s.split(sep)))
SplitStrip(s, sep) ==
    LET pieces == Split(s, sep)
    IN [k \in 1..Len(pieces) |-> Strip(pieces[k])]

-----------------------------------------------------------------------------
(* The tables of the script *)

SKIPPABLE_NOTICE_LICENSES ==
    << <<"CC0-1.0">>, <<"Unlicense">>, <<"Zlib">>, <<"MPL-2.0">> >>

SKIPPABLE_LICENSE_FILES ==
    SKIPPABLE_NOTICE_LICENSES \o
    << <<"GPL-3.0">>, <<"GPL-3.0-only">>, <<"GPL-3.0-or-later">> >>

SKIPPABLE_CRATES == <<"libloot", "libloot-ffi-errors">>

NO_NOTICES_WHITELIST ==
    << <<"allocator-api2", "0.2.21">>, <<"cxx", "1.0.161">>,
       <<"cxxbridge-macro", "1.0.161">>, <<"delegate", "0.13.4">>,
       <<"link-cplusplus", "1.0.10">>, <<"once_cell", "1.21.3">>,
       <<"option-ext", "0.2.0">>, <<"pelite-macros", "0.1.1">>,
       <<"pest", "2.8.0">>, <<"proc-macro2", "1.0.101">>,
       <<"quote", "1.0.40">>, <<"rustc-hash", "2.1.1">>,
       <<"rustversion", "1.0.20">>, <<"serde", "1.0.219">>,
       <<"serde_derive", "1.0.219">>, <<"syn", "2.0.106">>,
       <<"thiserror", "2.0.12">>, <<"thiserror-impl", "2.0.12">> >>

-----------------------------------------------------------------------------
(* parse_licenses *)

\* all(license in SKIPPABLE_NOTICE_LICENSES for license in licenses_all)
AllSkippable(licenses_all) ==
    \A k \in 1..Len(licenses_all) :
        InList(licenses_all[k], SKIPPABLE_NOTICE_LICENSES)

\* the workarounds of lines 117-129
Expression(license) ==
    IF license = <<"MIT", "/", "Apache-2.0">>
    THEN <<"MIT", " ", "OR", " ", "Apache-2.0">>
    ELSE IF license = <<"(", "Apache-2.0", " ", "OR", " ", "MIT", ")", " ",
                        "AND", " ", "BSD-3-Clause">>
    THEN <<"MIT", " ", "AND", " ", "BSD-3-Clause">>
    ELSE IF license = <<"(", "MIT", " ", "OR", " ", "Apache-2.0", ")", " ",
                        "AND", " ", "Unicode-3.0">>
    THEN <<"MIT", " ", "AND", " ", "Unicode-3.0">>
    ELSE license

\* the loop of lines 134-137 from branch k on: the first branch whose
\* licences are all skippable, or <<>> when the loop falls through
RECURSIVE SkippableBranchFrom(_, _)
SkippableBranchFrom(licenses_any, k) ==
    IF k > Len(licenses_any) THEN << >>
    ELSE LET licenses_all == SplitStrip(licenses_any[k], "AND")
         IN IF AllSkippable(licenses_all)
            THEN <<licenses_all>>
            ELSE SkippableBranchFrom(licenses_any, k + 1)

\* lines 131-143; SelectLicensesMitFirst is the variant that looks for MIT
\* before it looks for a branch that needs no notice
SelectLicensesMitFirst(expression) ==
    LET licenses_any == SplitStrip(expression, "OR")
        found == SkippableBranchFrom(licenses_any, 1)
    IN IF InList(<<"MIT">>, licenses_any) THEN << <<"MIT">> >>
       ELSE IF found # <<>> THEN found[1]
       ELSE SplitStrip(licenses_any[1], "AND")
SelectLicenses(expression) ==
    LET licenses_any == SplitStrip(expression, "OR")
        found == SkippableBranchFrom(licenses_any, 1)
    IN IF found # <<>> THEN found[1]
       ELSE IF InList(<<"MIT">>, licenses_any) THEN << <<"MIT">> >>
       ELSE SplitStrip(licenses_any[1], "AND")

parse_licenses(dependency) ==
    IF "license" \notin DOMAIN dependency
    THEN Exit1(<<"Found dependency with no license: ", dependency.name>>)
    ELSE LET expression == Expression(dependency.license)
         IN IF expression = None
            THEN Raise("AttributeError")   \* None has no split()
            ELSE Return(SelectLicenses(expression))

-----------------------------------------------------------------------------
(* SpecParse: parse_licenses on one dependency *)

ExprAtoms == {"MIT", "Apache-2.0", "CC0-1.0", "Zlib", "OR", "AND", " "}

MitSlashApache == <<"MIT", "/", "Apache-2.0">>
ApacheOrMitAndBsd ==
    <<"(", "Apache-2.0", " ", "OR", " ", "MIT", ")", " ", "AND", " ", "BSD-3-Clause">>
MitOrApacheAndUnicode ==
    <<"(", "MIT", " ", "OR", " ", "Apache-2.0", ")", " ", "AND", " ", "Unicode-3.0">>
Cc0OrMit == <<"CC0-1.0", " ", "OR", " ", "MIT">>

\* licence fields as cargo metadata reports them: a string or null
NamedLicenseFields ==
         {MitSlashApache, ApacheOrMitAndBsd, MitOrApacheAndUnicode, Cc0OrMit,
          <<"Apache-2.0", " ", "OR", " ", "MIT">>,
          <<"Zlib", " ", "AND", " ", "CC0-1.0", " ", "OR", " ", "MIT">>,
          <<"BSD-3-Clause", " ", "AND", " ", "MIT">>,
          None}

\* the dictionaries get_package_dependencies builds (lines 98-103)
Dependency(name, version, license) ==
    [name |-> name, version |-> version, license |-> license,
     manifest_path |-> name]

IdleParse == p_dependency = <<>> /\ p_result = NotCalled
IdleNotices == n_dependency = <<>> /\ n_entries = <<>> /\ n_result = NotCalled
IdleResolve ==
    /\ packages = <<>> /\ dependency_names = {} /\ stack = <<>> /\ top_i = 0
    /\ dependencies = <<>> /\ rpc = "idle"
    /\ visit_order = <<>> /\ followed = {} /\ entered = <<>>
IdleMain ==
    /\ package_dependencies = <<>> /\ pc = "idle" /\ idx = 0
    /\ unique_licenses = {} /\ pending = {} /\ fetched = <<>>
    /\ notices_rst = <<>> /\ stderr = <<>> /\ exit_status = Running
    /\ written = FALSE /\ extracted = {}

\* the licence field is any string of up to MaxExprLen atoms, or a named one
InitParse ==
    /\ \/ \E n \in 0..MaxExprLen : \E license \in [1..n -> ExprAtoms] :
              p_dependency = Dependency("dep", "1.0.0", license)
       \/ \E license \in NamedLicenseFields :
              p_dependency = Dependency("dep", "1.0.0", license)
    /\ p_result = NotCalled
    /\ IdleNotices /\ IdleResolve /\ IdleMain

CallParseLicenses ==
    /\ p_result = NotCalled
    /\ p_result' = parse_licenses(p_dependency)
    /\ UNCHANGED <<p_dependency, noticeVars, resolveVars, mainVars>>

NextParse == CallParseLicenses

SpecParse == InitParse /\ [][NextParse]_vars

-----------------------------------------------------------------------------
(* C6: parse_licenses applies its rules in priority order.  With the        *)
(* branches being the stripped pieces of the normalised expression split    *)
(* on OR, and a branch's AND-list its stripped pieces split on AND: if some *)
(* branch's AND-list is all no-notice licences, the first such AND-list is  *)
(* the result; otherwise, if some branch is exactly MIT, the result is      *)
(* [MIT]; otherwise the result is the first branch's AND-list.  The three   *)
(* named expressions give [MIT], [MIT, BSD-3-Clause] and [CC0-1.0].         *)
C6_PriorityOrder ==
    LET license == p_dependency.license
        branches == SplitStrip(Expression(license), "OR")
        AndList(k) == SplitStrip(branches[k], "AND")
        free == {k \in 1..Len(branches) : AllSkippable(AndList(k))}
        result == p_result.value
    IN (p_result # NotCalled /\ license # None) =>
        /\ p_result.outcome = "return"
        /\ free # {} =>
              \E k \in free : /\ \A m \in free : k <= m
                              /\ result = AndList(k)
        /\ (free = {} /\ \E k \in 1..Len(branches) : branches[k] = <<"MIT">>) =>
              result = << <<"MIT">> >>
        /\ (free = {} /\ \A k \in 1..Len(branches) : branches[k] # <<"MIT">>) =>
              result = AndList(1)
        /\ license = Cc0OrMit => result = << <<"CC0-1.0">> >>
        /\ license = MitSlashApache => result = << <<"MIT">> >>
        /\ license = ApacheOrMitAndBsd =>
              result = << <<"MIT">>, <<"BSD-3-Clause">> >>

\* a no-notice branch was chosen although a later branch is MIT
C6_Witness ==
    /\ p_dependency.license = Cc0OrMit
    /\ p_result = Return(<< <<"CC0-1.0">> >>)

-----------------------------------------------------------------------------
(* read_notices_from_file and read_notices *)

\* str.lower() on the atoms of file names and file lines
LowerAtom(a) ==
    CASE a = "Copyright" -> "copyright"
      [] a = "(C)" -> "(c)"
      [] a = "LICENSE" -> "license"
      [] a = "Copying" -> "copying"
      [] a = "README" -> "readme"
      [] a = "-MIT" -> "-mit"
      [] OTHER -> a

Lower(s) == [k \in 1..Len(s) |-> LowerAtom(s[k])]

\* needle in s, for a needle that is one atom
Contains(s, needle) == \E k \in 1..Len(s) : s[k] = needle

\* the number of characters of an atom made of decimal digits, else 0
DigitCount(a) ==
    CASE a = "19" -> 2
      [] a = "2020" -> 4
      [] OTHER -> 0

\* the digits in line[from..to] when each of these atoms is a digit atom,
\* else 0
RECURSIVE DigitRun(_, _, _)
DigitRun(line, from, to) ==
    IF from > to THEN 0
    ELSE IF DigitCount(line[from]) = 0 THEN 0
    ELSE IF from = to THEN DigitCount(line[from])
    ELSE LET rest == DigitRun(line, from + 1, to)
         IN IF rest = 0 THEN 0 ELSE DigitCount(line[from]) + rest

\* re.search(YEAR_REGEX, line): four consecutive digits somewhere
YearSearch(line) ==
    \E from \in 1..Len(line) : \E to \in from..Len(line) :
        DigitRun(line, from, to) >= 4

\* the condition of line 181; IsNoticeLineAnyCopyright is the variant that
\* stops at its first conjunct
IsNoticeLineAnyCopyright(line) == Contains(Lower(line), "copyright")
IsNoticeLine(line) ==
    LET lowercase_line == Lower(line)
    IN /\ Contains(lowercase_line, "copyright")
       /\ \/ Contains(lowercase_line, "(c)")
          \/ Contains(line, "©")
          \/ YearSearch(line)

\* lines 176-184; a file is the sequence of its lines, each without its
\* terminator (which strip() would remove)
RECURSIVE read_notices_from_file(_)
read_notices_from_file(file_lines) ==
    IF file_lines = <<>> THEN <<>>
    ELSE LET line == Head(file_lines)
             rest == read_notices_from_file(Tail(file_lines))
         IN IF IsNoticeLine(line) THEN <<Strip(line)>> \o rest ELSE rest

\* the atoms in ascending order of their strings; no atom is a prefix of
\* another, so comparing atom by atom compares the strings
AtomOrder == <<" ", "(C)", "19", "2020", "Copyright", "x", "©">>

Rank(a) == CHOOSE k \in 1..Len(AtomOrder) : AtomOrder[k] = a

\* a < b for strings
RECURSIVE StrLess(_, _)
StrLess(a, b) ==
    IF b = <<>> THEN FALSE
    ELSE IF a = <<>> THEN TRUE
    ELSE IF Head(a) = Head(b) THEN StrLess(Tail(a), Tail(b))
    ELSE Rank(Head(a)) < Rank(Head(b))

\* list.sort() of the elements of a set
RECURSIVE SortedList(_)
SortedList(S) ==
    IF S = {} THEN <<>>
    ELSE LET least == CHOOSE x \in S : \A y \in S \ {x} : StrLess(x, y)
         IN <<least>> \o SortedList(S \ {least})

Range(f) == {f[k] : k \in DOMAIN f}

\* a directory entry as os.scandir reports it: kind is what is_file() and
\* is_dir() tell apart
File(name, file_lines) ==
    [name |-> name, kind |-> "file", lines |-> file_lines, children |-> <<>>]
Dir(name, children) ==
    [name |-> name, kind |-> "dir", lines |-> <<>>, children |-> children]
Other(name) ==
    [name |-> name, kind |-> "other", lines |-> <<>>, children |-> <<>>]

\* lines 205-207: the files directly inside a directory
RECURSIVE ScanDirectory(_)
ScanDirectory(children) ==
    IF children = <<>> THEN <<>>
    ELSE LET entry == Head(children)
             rest == ScanDirectory(Tail(children))
         IN IF entry.kind = "file"
            THEN read_notices_from_file(entry.lines) \o rest
            ELSE rest

\* the test of line 201
NameMatches(name) ==
    LET lowercase_filename == Lower(name)
    IN Contains(lowercase_filename, "license")
       \/ Contains(lowercase_filename, "copying")

\* lines 199-207
RECURSIVE ScanCrate(_)
ScanCrate(entries) ==
    IF entries = <<>> THEN <<>>
    ELSE LET entry == Head(entries)
             rest == ScanCrate(Tail(entries))
         IN IF NameMatches(entry.name)
            THEN IF entry.kind = "file"
                 THEN read_notices_from_file(entry.lines) \o rest
                 ELSE IF entry.kind = "dir"
                 THEN ScanDirectory(entry.children) \o rest
                 ELSE rest
            ELSE rest

\* lines 186-212; entries is the listing of the crate's directory
read_notices(dependency, entries) ==
    IF dependency.name = "hashlink"
    THEN Return(<< <<"Copyright", " ", "(c)", " ", "2015", " ",
                     "The Rust Project Developers">> >>)
    ELSE IF dependency.name = "libloadorder"
    THEN Return(<< <<"Copyright", " ", "(C)", " ", "2017", " ", "Oliver Hamlet">> >>)
    ELSE IF dependency.name = "esplugin"
    THEN Return(<< <<"Copyright", " ", "(C)", " ", "2017", " ", "Oliver Hamlet">> >>)
    ELSE Return(SortedList(Range(ScanCrate(entries))))

-----------------------------------------------------------------------------
(* SpecNotices: read_notices on one crate directory *)

LineAtoms == {" ", "(C)", "19", "2020", "Copyright", "x", "©"}

NoticeLine == <<"Copyright", " ", "(C)", " ", "2020", " ", "x">>
IndentedNoticeLine == <<" ", " ">> \o NoticeLine
EarlierNoticeLine == <<"Copyright", " ", "(C)", " ", "19", "19">>
PlainLine == <<"x", " ", "x">>

SampleFiles ==
    { <<>>,
      <<NoticeLine>>,
      <<PlainLine, NoticeLine, EarlierNoticeLine>>,
      <<IndentedNoticeLine, PlainLine>> }

SampleNames == { <<"LICENSE", "-MIT">>, <<"Copying">>, <<"README">> }

SampleDirs ==
    { <<>>,
      <<File(<<"README">>, <<EarlierNoticeLine>>)>>,
      <<File(<<"x">>, <<NoticeLine>>), File(<<"LICENSE">>, <<IndentedNoticeLine>>)>>,
      <<Dir(<<"LICENSE">>, <<File(<<"LICENSE">>, <<EarlierNoticeLine>>)>>),
        Other(<<"Copying">>)>> }

SampleEntries ==
    {File(n, f) : n \in SampleNames, f \in SampleFiles}
    \cup {Dir(n, c) : n \in SampleNames, c \in SampleDirs}
    \cup {Other(n) : n \in SampleNames}

\* the directory holds a LICENSE file of any one line of up to MaxLineLen
\* atoms, or up to MaxEntries sample entries
InitNotices ==
    /\ n_dependency \in {Dependency(n, "1.0.0", <<"MIT">>) :
                            n \in {"dep", "hashlink", "libloadorder", "esplugin"}}
    /\ \/ \E n \in 0..MaxLineLen : \E line \in [1..n -> LineAtoms] :
              n_entries = <<File(<<"LICENSE">>, <<line>>)>>
       \/ \E n \in 0..MaxEntries :
              /\ n_dependency.name # "dep" => n <= 1
              /\ n_entries \in [1..n -> SampleEntries]
    /\ n_result = NotCalled
    /\ IdleParse /\ IdleResolve /\ IdleMain

CallReadNotices ==
    /\ n_result = NotCalled
    /\ n_result' = read_notices(n_dependency, n_entries)
    /\ UNCHANGED <<n_dependency, n_entries, parseVars, resolveVars, mainVars>>

NextNotices == CallReadNotices

SpecNotices == InitNotices /\ [][NextNotices]_vars

\* the lines of the files read_notices is to scan: the top-level files
\* whose name contains license or copying in any case, and the files
\* directly inside the top-level directories with such a name
LicenseFileLines(entries) ==
    LET Named(e) ==
            \E k \in 1..Len(e.name) : e.name[k] \in {"LICENSE", "Copying"}
        top == {e \in Range(entries) : Named(e)}
        files == {e \in top : e.kind = "file"}
                 \cup UNION {{c \in Range(d.children) : c.kind = "file"} :
                                d \in {e \in top : e.kind = "dir"}}
    IN UNION {Range(f.lines) : f \in files}

\* copyright in any case, and (c) in any case or the sign or four digits
ClaimedNoticeLine(line) ==
    /\ \E k \in 1..Len(line) : line[k] = "Copyright"
    /\ \/ \E k \in 1..Len(line) : line[k] \in {"(C)", "©", "2020"}
       \/ \E k \in 1..(Len(line) - 1) : line[k] = "19" /\ line[k + 1] = "19"

IsSortedNoDuplicates(list) ==
    \A k \in 1..(Len(list) - 1) : StrLess(list[k], list[k + 1])

Called == n_result # NotCalled /\ n_dependency.name = "dep"

(* C9 as claimed: for a dependency that is not hardcoded, read_notices      *)
(* returns exactly the sorted, duplicate-free list of the lines of the      *)
(* licence files that meet the notice predicate.                            *)
C9_ExactlyTheLines ==
    Called =>
        /\ IsSortedNoDuplicates(n_result.value)
        /\ Range(n_result.value) =
              {l \in LicenseFileLines(n_entries) : ClaimedNoticeLine(l)}

(* C9 as amended: for a dependency that is not hardcoded, read_notices      *)
(* returns exactly the sorted, duplicate-free list of the lines of the      *)
(* licence files that meet the notice predicate, each stripped of leading   *)
(* and trailing whitespace; no returned line fails the predicate.           *)
C9_ExactlyTheStrippedLines ==
    Called =>
        /\ n_result.outcome = "return"
        /\ IsSortedNoDuplicates(n_result.value)
        /\ Range(n_result.value) =
              {Strip(l) : l \in {x \in LicenseFileLines(n_entries) :
                                    ClaimedNoticeLine(x)}}
        /\ \A l \in Range(n_result.value) : ClaimedNoticeLine(l)

\* two files hold the same notice, one of them indented; it is returned
\* once, after an earlier-sorting notice and without the plain line
C9_Witness ==
    /\ Called
    /\ n_entries = <<File(<<"LICENSE", "-MIT">>,
                          <<PlainLine, NoticeLine, EarlierNoticeLine>>),
                     Dir(<<"Copying">>,
                         <<File(<<"x">>, <<NoticeLine>>),
                           File(<<"LICENSE">>, <<IndentedNoticeLine>>)>>)>>
    /\ n_result.value = <<EarlierNoticeLine, NoticeLine>>

-----------------------------------------------------------------------------
(* recurse_dependencies and get_package_dependencies *)

\* JSON null in the kind and target fields of a dependency edge
Null == "null"

Redox == "cfg(target_os = \"redox\")"
MacOS == "cfg(target_os = \"macos\")"
Windows == "cfg(windows)"

\* the conditionals of the model that one of the two platforms given to
\* cargo metadata (x86_64-pc-windows-msvc, x86_64-unknown-linux-gnu) meets
SupportedTargets == {Null, Windows}

package_name == "libloot-cpp"

\* one activation of recurse_dependencies: the package it walks, the edge
\* the outer loop is at, and the position of the inner loop over packages
\* (0 outside the inner loop)
Frame(k) == [package |-> k, dep |-> 1, scan |-> 0]

Top == stack[Len(stack)]

ReplaceTop(frame) == [stack EXCEPT ![Len(stack)] = frame]

\* the condition of line 60; the variants leave out the test of the visited
\* names and the test of the kind
SkipDependencyNoVisited(dependency, names) ==
    \/ dependency.kind \in {"dev", "build"}
    \/ dependency.target = Redox
SkipDependencyNoKind(dependency, names) ==
    \/ dependency.name \in names
    \/ dependency.target = Redox
SkipDependency(dependency, names) ==
    \/ dependency.name \in names
    \/ dependency.kind \in {"dev", "build"}
    \/ dependency.target = Redox

\* lines 95-103: the packages whose name was collected, in packages' order
RECURSIVE SelectPackages(_, _)
SelectPackages(pkgs, names) ==
    IF pkgs = <<>> THEN <<>>
    ELSE LET package == Head(pkgs)
             rest == SelectPackages(Tail(pkgs), names)
         IN IF package.name \in names
            THEN <<Dependency(package.name, package.version, package.license)>>
                 \o rest
            ELSE rest

\* the variant that lists the dependencies in the order their names were
\* collected
RECURSIVE SelectInVisitOrder(_, _)
SelectInVisitOrder(pkgs, order) ==
    IF order = <<>> THEN <<>>
    ELSE SelectPackages(pkgs, {Head(order)})
         \o SelectInVisitOrder(pkgs, Tail(order))

CollectedDependenciesInVisitOrder == SelectInVisitOrder(packages, visit_order)
CollectedDependencies == SelectPackages(packages, dependency_names)

\* lines 90-93: the loop that finds the root package
FindRoot ==
    /\ rpc = "find_root" /\ stack = <<>>
    /\ IF top_i > Len(packages)
       THEN /\ rpc' = "collect"
            /\ UNCHANGED <<top_i, stack, entered>>
       ELSE /\ top_i' = top_i + 1
            /\ rpc' = rpc
            /\ IF packages[top_i].name = package_name
               THEN /\ stack' = <<Frame(top_i)>>
                    /\ entered' = Append(entered, [package |-> top_i, line |-> 93])
               ELSE UNCHANGED <<stack, entered>>
    /\ UNCHANGED <<packages, dependency_names, dependencies, visit_order, followed>>
    /\ UNCHANGED <<parseVars, noticeVars, mainVars>>

\* lines 58-63: one iteration of the loop over the current package's edges
CheckDependency ==
    /\ rpc = "find_root" /\ stack # <<>>
    /\ Top.scan = 0
    /\ Top.dep <= Len(packages[Top.package].dependencies)
    /\ LET dependency == packages[Top.package].dependencies[Top.dep]
       IN IF SkipDependency(dependency, dependency_names)
          THEN /\ stack' = ReplaceTop([Top EXCEPT !.dep = @ + 1])
               /\ UNCHANGED <<dependency_names, visit_order, followed>>
          ELSE /\ dependency_names' = dependency_names \cup {dependency.name}
               /\ visit_order' = Append(visit_order, dependency.name)
               /\ followed' = followed \cup {dependency}
               /\ stack' = ReplaceTop([Top EXCEPT !.scan = 1])
    /\ UNCHANGED <<packages, top_i, dependencies, rpc, entered>>
    /\ UNCHANGED <<parseVars, noticeVars, mainVars>>

\* lines 64-66: one iteration of the loop that looks the name up
ScanPackages ==
    /\ rpc = "find_root" /\ stack # <<>>
    /\ Top.scan >= 1
    /\ LET name == packages[Top.package].dependencies[Top.dep].name
       IN IF Top.scan > Len(packages)
          THEN /\ stack' = ReplaceTop([Top EXCEPT !.dep = @ + 1, !.scan = 0])
               /\ UNCHANGED entered
          ELSE IF packages[Top.scan].name = name
          THEN /\ stack' = Append(ReplaceTop([Top EXCEPT !.scan = @ + 1]),
                                  Frame(Top.scan))
               /\ entered' = Append(entered, [package |-> Top.scan, line |-> 66])
          ELSE /\ stack' = ReplaceTop([Top EXCEPT !.scan = @ + 1])
               /\ UNCHANGED entered
    /\ UNCHANGED <<packages, dependency_names, top_i, dependencies, rpc,
                   visit_order, followed>>
    /\ UNCHANGED <<parseVars, noticeVars, mainVars>>

\* the loop of line 58 is exhausted: recurse_dependencies returns
ReturnFromRecursion ==
    /\ rpc = "find_root" /\ stack # <<>>
    /\ Top.scan = 0
    /\ Top.dep > Len(packages[Top.package].dependencies)
    /\ stack' = SubSeq(stack, 1, Len(stack) - 1)
    /\ UNCHANGED <<packages, dependency_names, top_i, dependencies, rpc,
                   visit_order, followed, entered>>
    /\ UNCHANGED <<parseVars, noticeVars, mainVars>>

\* lines 95-105
CollectDependencies ==
    /\ rpc = "collect"
    /\ dependencies' = CollectedDependencies
    /\ rpc' = "done"
    /\ UNCHANGED <<packages, dependency_names, stack, top_i, visit_order,
                   followed, entered>>
    /\ UNCHANGED <<parseVars, noticeVars, mainVars>>

-----------------------------------------------------------------------------
(* SpecResolve: the traversal on one metadata graph *)

Edge(name, kind, target) == [name |-> name, kind |-> kind, target |-> target]

Package(name, version, deps) ==
    [name |-> name, version |-> version, license |-> <<"MIT">>,
     manifest_path |-> name, dependencies |-> deps]

\* the orders of the packages list: the root first or last, two versions
\* of one name, and a list from which the package named b is missing
NameOrders ==
    { <<package_name, "a", "b">>, <<"b", "a", package_name>>,
      <<"a", "a", package_name>>, <<package_name, "a">> }

Versions == <<"1.0.0", "2.0.0", "3.0.0">>

\* every kind and conditional, on edges of the root
LabelEdges ==
    {Edge(n, k, t) : n \in {"a", "b"}, k \in {Null, "dev", "build"},
                     t \in {Null, Windows, MacOS, Redox}}

\* every target, cycles and self-edges included, on edges of any package
ShapeEdges ==
    {Edge(n, k, Null) : n \in {"a", "b", package_name}, k \in {Null, "dev"}}

Graph(order, root_deps, first_deps, second_deps) ==
    LET others == {k \in 1..Len(order) : order[k] # package_name}
        first == CHOOSE k \in others : \A m \in others : k <= m
    IN [k \in 1..Len(order) |->
            Package(order[k], Versions[k],
                    IF order[k] = package_name THEN root_deps
                    ELSE IF k = first THEN first_deps ELSE second_deps)]

\* the root has up to MaxRootDeps edges: of any label, above a and b with a
\* depending on b, or of any shape, above packages of at most one edge
InitResolve ==
    /\ \/ \E n \in 0..MaxRootDeps : \E r \in [1..n -> LabelEdges] :
              packages = Graph(<<package_name, "a", "b">>, r,
                               <<Edge("b", Null, Null)>>, <<>>)
       \/ \E o \in NameOrders : \E n \in 0..MaxRootDeps, nx, ny \in 0..1 :
              \E r \in [1..n -> ShapeEdges], x \in [1..nx -> ShapeEdges],
                 y \in [1..ny -> ShapeEdges] :
                  packages = Graph(o, r, x, y)
    /\ dependency_names = {}
    /\ stack = <<>>
    /\ top_i = 1
    /\ dependencies = <<>>
    /\ rpc = "find_root"
    /\ visit_order = <<>> /\ followed = {} /\ entered = <<>>
    /\ IdleParse /\ IdleNotices /\ IdleMain

NextResolve ==
    \/ FindRoot
    \/ CheckDependency
    \/ ScanPackages
    \/ ReturnFromRecursion
    \/ CollectDependencies

SpecResolve == InitResolve /\ [][NextResolve]_vars

\* the script runs on its own: it always takes its next step
SpecResolveFair == SpecResolve /\ WF_vars(NextResolve)

\* the edges of the graph that meet a condition, as pairs of names
Pairs(Allowed(_)) ==
    UNION {{[from |-> packages[k].name, to |-> packages[k].dependencies[d].name] :
               d \in {x \in 1..Len(packages[k].dependencies) :
                          Allowed(packages[k].dependencies[x])}} :
           k \in 1..Len(packages)}

\* the names one or more edges of E away from the names of S
RECURSIVE Closure(_, _)
Closure(S, E) ==
    LET more == S \cup {e.to : e \in {x \in E : x.from \in S}}
    IN IF more = S THEN S ELSE Closure(more, E)

ReachableFromRoot(E) ==
    Closure({e.to : e \in {x \in E : x.from = package_name}}, E)

NormalSupported(e) == e.kind = Null /\ e.target \in SupportedTargets
NotDevOrBuild(e) == e.kind \notin {"dev", "build"}
Supported(e) == e.target \in SupportedTargets

\* package k of the metadata is in the list get_package_dependencies returns
Returned(k) ==
    \E j \in 1..Len(dependencies) :
        /\ dependencies[j].name = packages[k].name
        /\ dependencies[j].version = packages[k].version

(* C1: the resolution returns every package reachable from the root by one  *)
(* or more normal-kind edges whose conditional one of the two supported     *)
(* platforms meets, and no package that every path from the root reaches    *)
(* only over a dev or build edge; a package reachable both over a dev or    *)
(* build edge and over normal edges is returned.                            *)
C1_NormalReachableReturned ==
    rpc = "done" =>
        \A k \in 1..Len(packages) :
            /\ packages[k].name \in ReachableFromRoot(Pairs(NormalSupported))
                  => Returned(k)
            /\ packages[k].name \notin ReachableFromRoot(Pairs(NotDevOrBuild))
                  => ~Returned(k)

\* the root names a first as a dev dependency and then as a normal one;
\* a is returned and so is b, which a depends on, while nothing else is
C1_Witness ==
    /\ rpc = "done"
    /\ Len(packages) = 3
    /\ packages[1].name = package_name
    /\ packages[1].dependencies = <<Edge("a", "dev", Null), Edge("a", Null, Null)>>
    /\ Returned(2) /\ Returned(3)
    /\ Len(dependencies) = 2

(* C2: every returned package is reachable from the root over edges whose   *)
(* platform conditional is absent or met by one of the two supported        *)
(* platforms, and the traversal never follows an edge whose conditional     *)
(* neither platform meets.                                                  *)
C2_OnlySupportedEdgesFollowed ==
    /\ \A e \in followed : e.target \in SupportedTargets
    /\ rpc = "done" =>
          \A j \in 1..Len(dependencies) :
              dependencies[j].name \in ReachableFromRoot(Pairs(Supported))

\* position of a name in the order of first visits
VisitPosition(name) == CHOOSE k \in 1..Len(visit_order) : visit_order[k] = name

\* position in the metadata of the package a returned dependency was made of
PackagePosition(j) ==
    CHOOSE k \in 1..Len(packages) :
        /\ packages[k].name = dependencies[j].name
        /\ packages[k].version = dependencies[j].version

(* C8 as claimed: of two returned packages, the one whose name was marked   *)
(* visited first comes first in the returned list.                          *)
C8_FirstVisitOrder ==
    rpc = "done" =>
        \A j1, j2 \in 1..Len(dependencies) :
            VisitPosition(dependencies[j1].name) < VisitPosition(dependencies[j2].name)
                => j1 < j2

(* C8 as amended: the returned list is in the order of the metadata's       *)
(* packages list, whatever the order of the visits: of two returned         *)
(* packages the one that comes first in the metadata comes first, and each  *)
(* package whose name was marked visited appears exactly once.              *)
C8_MetadataOrder ==
    rpc = "done" =>
        /\ \A j \in 1..Len(dependencies) : dependencies[j].name \in Range(visit_order)
        /\ \A j1, j2 \in 1..Len(dependencies) :
              j1 < j2 => PackagePosition(j1) < PackagePosition(j2)
        /\ \A k \in 1..Len(packages) :
              packages[k].name \in Range(visit_order) =>
                  Cardinality({j \in 1..Len(dependencies) : PackagePosition(j) = k}) = 1

\* b was visited before a and is returned after it
C8_Witness ==
    /\ rpc = "done"
    /\ visit_order = <<"b", "a">>
    /\ Len(dependencies) = 2
    /\ dependencies[1].name = "a" /\ dependencies[2].name = "b"

\* how often line 63 marked a name, and how often line 66 entered a package
TimesMarked(name) == Cardinality({k \in 1..Len(visit_order) : visit_order[k] = name})
TimesEntered(p) ==
    Cardinality({k \in 1..Len(entered) :
                    entered[k].package = p /\ entered[k].line = 66})

(* C10: on every graph, with cycles and self-edges, the traversal           *)
(* terminates; each name is marked visited at most once, each package is    *)
(* entered by the recursive call at most once, every recursive call is for  *)
(* a name marked before it, and the set of visited names only grows.        *)
C10_TerminatesVisitingOnce ==
    /\ <>(rpc = "done")
    /\ [](\A n \in Range(visit_order) : TimesMarked(n) <= 1)
    /\ [](\A p \in 1..Len(packages) : TimesEntered(p) <= 1)
    /\ [](\A k \in 1..Len(entered) :
             entered[k].line = 66 =>
                 packages[entered[k].package].name \in dependency_names)
    /\ [][dependency_names \subseteq dependency_names']_vars

\* a and b depend on each other: the traversal is over, having been through
\* the cycle
C10_Witness ==
    /\ rpc = "done"
    /\ \E k \in 1..Len(packages) :
          /\ packages[k].name = "a"
          /\ packages[k].dependencies = <<Edge("b", Null, Null)>>
    /\ \E k \in 1..Len(packages) :
          /\ packages[k].name = "b"
          /\ packages[k].dependencies = <<Edge("a", Null, Null)>>
    /\ dependency_names = {"a", "b"}

-----------------------------------------------------------------------------
(* download_licenses and __main__ *)

\* the test of line 160; the variant consults the shorter list
SkipLicenseFileNoticeOnly(license) == InList(license, SKIPPABLE_NOTICE_LICENSES)
SkipLicenseFile(license) == InList(license, SKIPPABLE_LICENSE_FILES)

\* the test of line 235; the variant never skips
LicenseAllowsSkippingNever(licenses) == FALSE
LicenseAllowsSkipping(licenses) == AllSkippable(licenses)

\* the test of line 242; the variant ignores the version
WhitelistedByName(dependency) ==
    \E k \in 1..Len(NO_NOTICES_WHITELIST) :
        NO_NOTICES_WHITELIST[k][1] = dependency.name
Whitelisted(dependency) ==
    InList(<<dependency.name, dependency.version>>, NO_NOTICES_WHITELIST)

\* lines 152-157
ConsolidateGpl(licenses) ==
    IF <<"GPL-3.0-or-later">> \in licenses
    THEN licenses \ {<<"GPL-3.0">>, <<"GPL-3.0-only">>}
    ELSE licenses

\* the process ends with status 1 after writing msg to the error stream:
\* exit(1) after a diagnostic, or an exception nothing catches
Abort(msg) ==
    /\ pc' = "exited"
    /\ exit_status' = 1
    /\ stderr' = Append(stderr, msg)

\* a call to parse_licenses that does not return ends the process
AbortOn(result) == Abort(result.stderr)

\* lines 146-149: one iteration of the loop over the dependencies, and
\* lines 152-157 once the loop is over
CollectLicenses ==
    /\ pc = "download_licenses"
    /\ IF idx <= Len(package_dependencies)
       THEN LET licenses == parse_licenses(package_dependencies[idx])
            IN IF licenses.outcome = "return"
               THEN /\ unique_licenses' = unique_licenses \cup Range(licenses.value)
                    /\ idx' = idx + 1
                    /\ UNCHANGED <<pc, pending, stderr, exit_status>>
               ELSE /\ AbortOn(licenses)
                    /\ UNCHANGED <<unique_licenses, idx, pending>>
       ELSE /\ unique_licenses' = ConsolidateGpl(unique_licenses)
            /\ pending' = unique_licenses'
            /\ pc' = "fetch_licenses"
            /\ UNCHANGED <<idx, stderr, exit_status>>
    /\ UNCHANGED <<package_dependencies, fetched, notices_rst, written, extracted>>
    /\ UNCHANGED <<parseVars, noticeVars, resolveVars>>

\* what urlopen can answer: a response with status 200, a response with
\* another status, or an exception
Responses == {"200", "204", "HTTPError"}

\* lines 159-174: one iteration of the loop over the set, in any order
DownloadLicense ==
    /\ pc = "fetch_licenses"
    /\ \E license \in pending :
          /\ pending' = pending \ {license}
          /\ IF SkipLicenseFile(license)
             THEN UNCHANGED <<pc, fetched, stderr, exit_status>>
             ELSE \E response \in Responses :
                     IF response = "200"
                     THEN /\ fetched' = Append(fetched, license)
                          /\ UNCHANGED <<pc, stderr, exit_status>>
                     ELSE /\ Abort(IF response = "HTTPError"
                                   THEN <<"Traceback", "HTTPError">>
                                   ELSE <<"Error fetching license: ", response>>)
                          /\ UNCHANGED fetched
    /\ UNCHANGED <<package_dependencies, idx, unique_licenses, notices_rst,
                   written, extracted>>
    /\ UNCHANGED <<parseVars, noticeVars, resolveVars>>

\* download_licenses returns; lines 223-229 start the document
StartDocument ==
    /\ pc = "fetch_licenses"
    /\ pending = {}
    /\ pc' = "notices"
    /\ idx' = 1
    /\ notices_rst' = <<>>
    /\ UNCHANGED <<package_dependencies, unique_licenses, pending, fetched,
                   stderr, exit_status, written, extracted>>
    /\ UNCHANGED <<parseVars, noticeVars, resolveVars>>

\* the crate directories a dependency's manifest_path can lead to
SourceTrees ==
    { <<>>,
      <<File(<<"LICENSE">>, <<PlainLine>>)>>,
      <<File(<<"LICENSE">>, <<NoticeLine>>)>> }

\* lines 249-255: the section of one dependency (dep is its position in the
\* list, kept to tell apart dependencies of one name and version)
Section(dep, dependency, notices) ==
    [dep |-> dep, name |-> dependency.name, version |-> dependency.version,
     notices |-> notices]

\* lines 231-255: one iteration of the loop over the dependencies
ProcessDependency ==
    /\ pc = "notices"
    /\ idx <= Len(package_dependencies)
    /\ LET dependency == package_dependencies[idx]
           licenses == parse_licenses(dependency)
       IN IF InList(dependency.name, SKIPPABLE_CRATES)
          THEN /\ idx' = idx + 1
               /\ UNCHANGED <<pc, notices_rst, stderr, exit_status, extracted>>
          ELSE IF licenses.outcome # "return"
          THEN /\ AbortOn(licenses)
               /\ UNCHANGED <<idx, notices_rst, extracted>>
          ELSE IF LicenseAllowsSkipping(licenses.value)
          THEN /\ idx' = idx + 1
               /\ UNCHANGED <<pc, notices_rst, stderr, exit_status, extracted>>
          ELSE \E entries \in SourceTrees :
                  LET notices == read_notices(dependency, entries).value
                  IN /\ extracted' = extracted \cup
                                        {[dep |-> idx, notices |-> notices]}
                     /\ IF notices = <<>>
                        THEN IF ~Whitelisted(dependency)
                             THEN /\ Abort(<<"Found dependency with no notices: ",
                                             dependency.name, dependency.version>>)
                                  /\ UNCHANGED <<idx, notices_rst>>
                             ELSE /\ idx' = idx + 1
                                  /\ UNCHANGED <<pc, notices_rst, stderr, exit_status>>
                        ELSE /\ notices_rst' =
                                    Append(notices_rst, Section(idx, dependency, notices))
                             /\ idx' = idx + 1
                             /\ UNCHANGED <<pc, stderr, exit_status>>
    /\ UNCHANGED <<package_dependencies, unique_licenses, pending, fetched, written>>
    /\ UNCHANGED <<parseVars, noticeVars, resolveVars>>

\* lines 257-259, and the end of the script
WriteDocument ==
    /\ pc = "notices"
    /\ idx > Len(package_dependencies)
    /\ written' = TRUE
    /\ pc' = "done"
    /\ exit_status' = 0
    /\ UNCHANGED <<package_dependencies, idx, unique_licenses, pending, fetched,
                   notices_rst, stderr, extracted>>
    /\ UNCHANGED <<parseVars, noticeVars, resolveVars>>

-----------------------------------------------------------------------------
(* Spec: the pipeline on one resolved dependency list *)

\* one of libloot's own crates, a crate with a hardcoded notice, and a crate
\* in a whitelisted and in another version
Crates ==
    { <<"libloot", "0.28.0">>, <<"hashlink", "0.10.0">>,
      <<"cxx", "1.0.161">>, <<"cxx", "1.0.0">> }

Licenses ==
    { None, MitSlashApache, <<"Zlib">>, <<"Apache-2.0">>,
      <<"GPL-3.0">>, <<"GPL-3.0-or-later">> }

\* the list get_package_dependencies returned: up to MaxDependencies
\* dependencies, each one of the crates with one of the licences
Init ==
    /\ \E n \in 0..MaxDependencies :
          package_dependencies \in
              [1..n -> {Dependency(c[1], c[2], l) : c \in Crates, l \in Licenses}]
    /\ pc = "download_licenses"
    /\ idx = 1
    /\ unique_licenses = {} /\ pending = {} /\ fetched = <<>>
    /\ notices_rst = <<>> /\ stderr = <<>> /\ exit_status = Running
    /\ written = FALSE /\ extracted = {}
    /\ IdleParse /\ IdleNotices /\ IdleResolve

Next ==
    \/ CollectLicenses
    \/ DownloadLicense
    \/ StartDocument
    \/ ProcessDependency
    \/ WriteDocument

Spec == Init /\ [][Next]_vars

Terminated == pc \in {"done", "exited"}

\* the licence set parse_licenses selects for dependency k, when it returns
Selected(k) == parse_licenses(package_dependencies[k])

NoNoticeRequired(k) ==
    /\ Selected(k).outcome = "return"
    /\ \A j \in 1..Len(Selected(k).value) :
          Selected(k).value[j] \in
              { <<"CC0-1.0">>, <<"Unlicense">>, <<"Zlib">>, <<"MPL-2.0">> }

SelfCrate(k) ==
    package_dependencies[k].name \in {"libloot", "libloot-ffi-errors"}

(* C3: a dependency whose licence set is entirely no-notice licences never  *)
(* has read_notices called on it, never gets a section in the document and  *)
(* never has a licence of its set fetched.                                  *)
C3_NoNoticeDependencySkipped ==
    \A k \in 1..Len(package_dependencies) :
        NoNoticeRequired(k) =>
            /\ \A x \in extracted : x.dep # k
            /\ \A j \in 1..Len(notices_rst) : notices_rst[j].dep # k
            /\ \A j \in 1..Len(Selected(k).value) :
                  ~InList(Selected(k).value[j], fetched)

\* the run is over; it passed a Zlib dependency by, and fetched the licence
\* of another dependency and wrote that one's section
C3_Witness ==
    /\ pc = "done"
    /\ Len(package_dependencies) = 2
    /\ package_dependencies[1] = Dependency("cxx", "1.0.0", <<"Zlib">>)
    /\ NoNoticeRequired(1)
    /\ fetched = << <<"Apache-2.0">> >>
    /\ Len(notices_rst) = 1 /\ notices_rst[1].dep = 2

\* a dependency for which extraction found nothing and that the whitelist
\* does not name
Undocumented ==
    \E x \in extracted :
        /\ x.notices = <<>>
        /\ \A k \in 1..Len(NO_NOTICES_WHITELIST) :
              \/ NO_NOTICES_WHITELIST[k][1] # package_dependencies[x.dep].name
              \/ NO_NOTICES_WHITELIST[k][2] # package_dependencies[x.dep].version

(* C4: once a processed dependency has an empty extraction result and is    *)
(* not whitelisted, the run has ended with a non-zero status and the        *)
(* document is never written; the document is written only when every       *)
(* dependency of the list has been processed and nothing was fatal.         *)
C4_UndocumentedIsFatal ==
    /\ Undocumented =>
          pc = "exited" /\ exit_status # 0 /\ exit_status # Running /\ ~written
    /\ written =>
          /\ idx > Len(package_dependencies)
          /\ exit_status = 0 /\ stderr = <<>>
          /\ \A k \in 1..Len(package_dependencies) :
                \/ SelfCrate(k)
                \/ NoNoticeRequired(k)
                \/ \E x \in extracted : x.dep = k

\* the second dependency had no notices and is not whitelisted: the run
\* ended after the first one's section was made, without a document
C4_Witness ==
    /\ Undocumented
    /\ pc = "exited"
    /\ Len(notices_rst) = 1
    /\ \E x \in extracted : x.dep = 2 /\ x.notices = <<>>

(* C5: when a resolved dependency declares no licence, the run ends with    *)
(* status 1 after printing the diagnostic that names the dependency,        *)
(* before any licence text is fetched and without writing the document.     *)
C5_MissingLicenseDiagnosed ==
    (Terminated /\ \E k \in 1..Len(package_dependencies) :
                      package_dependencies[k].license = None) =>
        /\ exit_status = 1
        /\ \E k \in 1..Len(package_dependencies) :
              /\ package_dependencies[k].license = None
              /\ InList(<<"Found dependency with no license: ",
                          package_dependencies[k].name>>, stderr)
        /\ fetched = <<>>
        /\ ~written

\* the licences the selected sets of a set of dependencies hold
SelectedBy(K) ==
    UNION {Range(Selected(k).value) : k \in {x \in K : Selected(x).outcome = "return"}}

FetchedOnce ==
    \A j1, j2 \in 1..Len(fetched) : fetched[j1] = fetched[j2] => j1 = j2

NoSkipListFetched ==
    /\ \A j \in 1..Len(fetched) :
          fetched[j] \notin
              { <<"CC0-1.0">>, <<"Unlicense">>, <<"Zlib">>, <<"MPL-2.0">>,
                <<"GPL-3.0">>, <<"GPL-3.0-only">>, <<"GPL-3.0-or-later">> }
    /\ InList(<<"GPL-3.0-or-later">>, fetched) =>
          ~InList(<<"GPL-3.0">>, fetched) /\ ~InList(<<"GPL-3.0-only">>, fetched)

(* C7 as claimed: the fetched licences are licences of the selected sets of *)
(* dependencies that are not libloot's own crates, none is on the skip      *)
(* list, GPL-3.0 and GPL-3.0-only are not fetched when GPL-3.0-or-later is, *)
(* and each is fetched at most once.                                        *)
C7_FetchedFromOtherCrates ==
    /\ Range(fetched) \subseteq
          SelectedBy({k \in 1..Len(package_dependencies) : ~SelfCrate(k)})
    /\ NoSkipListFetched
    /\ FetchedOnce

(* C7 as amended: the fetched licences are licences of the selected sets of *)
(* the resolved dependencies, libloot's own crates included; none is on the *)
(* skip list, GPL-3.0 and GPL-3.0-only are not fetched when                 *)
(* GPL-3.0-or-later is, and each is fetched at most once.                   *)
C7_FetchedFromResolved ==
    /\ Range(fetched) \subseteq SelectedBy(1..Len(package_dependencies))
    /\ NoSkipListFetched
    /\ FetchedOnce

\* one of libloot's own crates selects Apache-2.0 and another crate MIT: the
\* run is over and has fetched both texts
C7_Witness ==
    /\ pc = "done"
    /\ Len(package_dependencies) = 2
    /\ package_dependencies[1] = Dependency("libloot", "0.28.0", <<"Apache-2.0">>)
    /\ package_dependencies[2].name = "cxx"
    /\ package_dependencies[2].license = MitSlashApache
    /\ Range(fetched) = { <<"Apache-2.0">>, <<"MIT">> }

=============================================================================
